---- MODULE Spec2Model ----
(***************************************************************************)
(* Model of the Sudoku-AI search engine: the Board (sudoku/board.py), the  *)
(* restart / hill-climbing driver and the step and evaluation operators of *)
(* HillClimbing, PaperBetaHC and CustomBetaHC (sudoku/solve.py).           *)
(*                                                                         *)
(* A numpy grid is a function [y -> [x -> value]] over 0..size-1, indexed  *)
(* as the code indexes it (board[y, x]).  A Board object is a record of   *)
(* its fields.  A python dict is a function on its keys; a python list is  *)
(* a sequence whose entries keep the code's 0-based indexes as values.     *)
(* An exception is the name of the exception in place of the result.      *)
(***************************************************************************)
EXTENDS Integers, Sequences, FiniteSets, TLC

VARIABLES
    b,            \* the caller's Board object
    board_copy,   \* the last copy made: Board.copy() / board_copy of _climb
    ret,          \* what the last operation returned (or the exception raised)
    last,         \* the last operation and its arguments
    solver,       \* the solver object: configuration, self._board, self._results
    best,         \* _solve: best
    score_min,    \* _solve: score_min
    itr_min,      \* _solve: itr_min
    restart,      \* _solve: restarts of the for loop started so far
    climb,        \* _climb: its locals score_min and i, the score of its starting
                  \* fill and, once it returned, the grid it left in self._board
    pc,           \* position of the driver
    calls,        \* try_solve calls made on the solver
    work          \* fills, steps and evaluations done by the running try_solve call

vars == <<b, board_copy, ret, last, solver, best, score_min, itr_min, restart,
          climb, pc, calls, work>>

\* python's None where an array or an object is expected
None == << >>

\* what a Board method returns: True, False, None (no return statement) or the
\* name of the exception it raised
True == "True"
False == "False"
NoReturn == "None"

\* solve.py: INFINITY = float('inf'); larger than every score and iteration count
INFINITY == 1000000

----------------------------------------------------------------------------
(* Bounds of the model *)

\* max_restarts is drawn from 1..MaxRestarts
MaxRestarts == 2
\* max_iter is drawn from 1..MaxIter
MaxIter == 2
\* cells overwritten on top of a base grid when the objectives are evaluated
MaxEdits == 2
\* random.random() returns one of 0/Denom, 1/Denom .. (Denom-1)/Denom, and a
\* probability is a number of Denom-ths
Denom == 4
\* set_init_state calls made on one Board
MaxLoads == 2

----------------------------------------------------------------------------
(* numpy helpers *)

Idx(n) == 0..(n - 1)

\* np.full(shape=(size, size), fill_value=0)
Zeros(n) == [y \in Idx(n) |-> [x \in Idx(n) |-> 0]]

\* int(math.sqrt(n))
ISqrt(n) == CHOOSE k \in 0..n : k * k <= n /\ (k + 1) * (k + 1) > n

\* a row of a grid as the sequence the code iterates over
RowSeq(g, n, y) == [k \in 1..n |-> g[y][k - 1]]

\* board[:, x]
ColSeq(g, n, x) == [k \in 1..n |-> g[k - 1][x]]

\* a python list of numbers stored into a numpy row
SeqRow(s) == [x \in Idx(Len(s)) |-> s[x + 1]]

RECURSIVE SeqSum(_)
SeqSum(s) == IF s = << >> THEN 0 ELSE Head(s) + SeqSum(Tail(s))

Abs(v) == IF v < 0 THEN -v ELSE v

\* an exception raised where a Board was to be produced
Raised(name) == [exc |-> name]

IsRaised(v) == "exc" \in DOMAIN v

----------------------------------------------------------------------------
(* parse.py *)

\* int(token) for the tokens of the modelled files: a decimal numeral converts,
\* any other token raises ValueError
Numerals == <<"0", "1", "2", "3", "4", "5", "6", "7", "8", "9">>

\* convert_safe: <<n>> for the converted number n, None when int() raised
convert_safe(value) ==
    IF \E k \in 1..Len(Numerals) : Numerals[k] = value
    THEN <<(CHOOSE k \in 1..Len(Numerals) : Numerals[k] = value) - 1>>
    ELSE None

\* text.split() has already cut the line into its tokens
_try_convert_seq(text) == [k \in 1..Len(text) |-> convert_safe(text[k])]

----------------------------------------------------------------------------
(* board.py: Board *)

\* Board.__init__ (display_blank and _max_digits only serve printing)
Board(sz) ==
    IF ISqrt(sz) * ISqrt(sz) # sz THEN "AssertionError"
    ELSE [size |-> sz, size_sq |-> ISqrt(sz), board |-> Zeros(sz),
          board_init |-> None, unfilled |-> << >>]

RECURSIVE CountUnfilledFrom(_, _)
CountUnfilledFrom(area, k) ==
    IF k > Len(area) THEN << >>
    ELSE (IF area[k] = 0 THEN <<k - 1>> ELSE << >>) \o CountUnfilledFrom(area, k + 1)

\* Board._count_unfilled: (number of blanks, their 0-based indexes in order)
_count_unfilled(area) ==
    LET unf == CountUnfilledFrom(area, 1) IN <<Len(unf), unf>>

\* Board._init_from_file from line k on: [ok, board], ok being the returned
\* boolean or the exception raised; the rows written so far stay written
RECURSIVE InitFromLines(_, _, _, _)
InitFromLines(B, lines, k, g) ==
    IF k > Len(lines) THEN [ok |-> (IF Len(lines) = B.size THEN True ELSE False), board |-> g]
    ELSE LET data == _try_convert_seq(lines[k]) IN
         IF (\E j \in 1..Len(data) : data[j] = None) \/ Len(data) # B.size
         THEN [ok |-> False, board |-> g]
         ELSE IF k - 1 >= B.size
              THEN [ok |-> "IndexError", board |-> g]
              ELSE InitFromLines(B, lines, k + 1,
                       [g EXCEPT ![k - 1] = [x \in Idx(B.size) |-> data[x + 1][1]]])

_init_from_file(B, lines) == InitFromLines(B, lines, 1, B.board)

\* Board.set_init_state: [ret, B]; file = None is a path that does not exist.
\* The keys already in _unfilled are kept: the dict is only ever added to.
set_init_state(B, file) ==
    IF file = None THEN [ret |-> False, B |-> B]
    ELSE LET r == _init_from_file(B, file)
             B1 == [B EXCEPT !.board = r.board]
         IN IF r.ok = True
            THEN LET rows == {y \in Idx(B.size) :
                                  _count_unfilled(RowSeq(r.board, B.size, y))[1] >= 2}
                     keys == (DOMAIN B.unfilled) \cup rows
                 IN [ret |-> True,
                     B |-> [B1 EXCEPT
                              !.board_init = r.board,
                              !.unfilled = [y \in keys |->
                                  IF y \in rows
                                  THEN _count_unfilled(RowSeq(r.board, B.size, y))[2]
                                  ELSE B.unfilled[y]]]]
            ELSE [ret |-> r.ok, B |-> B1]

\* Board.unfilled_by_row
unfilled_by_row(B) == B.unfilled

\* the keys of _unfilled as the list the code iterates over (ascending)
RECURSIVE KeysFrom(_, _, _)
KeysFrom(d, y, n) ==
    IF y >= n THEN << >>
    ELSE (IF y \in DOMAIN d THEN <<y>> ELSE << >>) \o KeysFrom(d, y + 1, n)

Keys(B) == KeysFrom(B.unfilled, 0, B.size)

\* Board.unfilled_positions: Pos(x=index, y=row) of the rows of _unfilled
RECURSIVE PositionsFrom(_, _)
PositionsFrom(B, rows) ==
    IF rows = << >> THEN << >>
    ELSE [k \in 1..Len(B.unfilled[Head(rows)]) |->
             [x |-> B.unfilled[Head(rows)][k], y |-> Head(rows)]]
         \o PositionsFrom(B, Tail(rows))

unfilled_positions(B) == PositionsFrom(B, Keys(B))

\* Board.values
values(B) == B.board

\* Board.is_valid
is_valid(B, pos) == 0 <= pos.x /\ pos.x < B.size /\ 0 <= pos.y /\ pos.y < B.size

\* Board.is_initial, of a Board that has an initial state (on a Board that
\* has none, subscripting _board_init = None raises TypeError: see set)
is_initial(B, pos) ==
    IF ~is_valid(B, pos) THEN FALSE
    ELSE B.board_init[pos.y][pos.x] # 0

\* Board.at
at(B, pos) == IF ~is_valid(B, pos) THEN None ELSE B.board[pos.y][pos.x]

\* fill_board without the scan of the initial tiles
fill_board_noscan(B, vals) ==
    IF vals.n # B.size THEN [ret |-> False, B |-> B]
    ELSE IF B.board_init = None THEN [ret |-> "TypeError", B |-> B]
    ELSE [ret |-> True, B |-> [B EXCEPT !.board = vals.g]]

\* Board.fill_board: [ret, B]; vals is [n, g], an n x n array
fill_board(B, vals) ==
    IF vals.n # B.size THEN [ret |-> False, B |-> B]
    ELSE IF B.board_init = None THEN [ret |-> "TypeError", B |-> B]
    ELSE IF \E y \in Idx(B.size), x \in Idx(B.size) :
                B.board_init[y][x] # 0 /\ B.board_init[y][x] # vals.g[y][x]
    THEN [ret |-> False, B |-> B]
    ELSE [ret |-> True, B |-> [B EXCEPT !.board = vals.g]]

\* Board.fill_line: [ret, B]; the success path ends without a return statement
fill_line(B, line_num, vals) ==
    IF Len(vals) # B.size \/ ~(0 <= line_num /\ line_num < B.size)
    THEN [ret |-> False, B |-> B]
    ELSE IF B.board_init = None THEN [ret |-> "TypeError", B |-> B]
    ELSE IF \E k \in 1..B.size :
                B.board_init[line_num][k - 1] # 0 /\ B.board_init[line_num][k - 1] # vals[k]
    THEN [ret |-> False, B |-> B]
    ELSE [ret |-> NoReturn, B |-> [B EXCEPT !.board[line_num] = SeqRow(vals)]]

\* set without the is_initial test
set_anytile(B, pos, val) ==
    IF ~is_valid(B, pos) THEN [ret |-> False, B |-> B]
    ELSE IF B.board_init = None THEN [ret |-> "TypeError", B |-> B]
    ELSE [ret |-> True, B |-> [B EXCEPT !.board[pos.y][pos.x] = val]]

\* Board.set: [ret, B]
set(B, pos, val) ==
    IF ~is_valid(B, pos) THEN [ret |-> False, B |-> B]
    ELSE IF B.board_init = None THEN [ret |-> "TypeError", B |-> B]
    ELSE IF is_initial(B, pos) THEN [ret |-> False, B |-> B]
    ELSE [ret |-> True, B |-> [B EXCEPT !.board[pos.y][pos.x] = val]]

\* reset that leaves the working values as they are
reset_nothing(B) ==
    IF B.board_init = None THEN [ret |-> "AttributeError", B |-> B]
    ELSE [ret |-> NoReturn, B |-> B]

\* reset that restores only the rows the unfilled index lists
reset_unfilled_rows(B) ==
    IF B.board_init = None THEN [ret |-> "AttributeError", B |-> B]
    ELSE [ret |-> NoReturn,
          B |-> [B EXCEPT !.board = [y \in Idx(B.size) |->
                    IF y \in DOMAIN B.unfilled THEN B.board_init[y] ELSE B.board[y]]]]

\* Board.reset: [ret, B]
reset(B) ==
    IF B.board_init = None THEN [ret |-> "AttributeError", B |-> B]
    ELSE [ret |-> NoReturn, B |-> [B EXCEPT !.board = B.board_init]]

\* Board.bounds
bounds(B) == <<B.size, B.size_sq>>

\* copy that takes the initial state of the new Board from the working values
copy_working(B) ==
    IF B.board_init = None THEN None
    ELSE [Board(B.size) EXCEPT !.board = B.board, !.board_init = B.board,
                               !.unfilled = B.unfilled]

\* Board.copy: a new Board with copies of the three fields (None stands for the
\* AttributeError of None.copy() on a Board that has no initial state)
copy(B) ==
    IF B.board_init = None THEN None
    ELSE [Board(B.size) EXCEPT !.board = B.board, !.board_init = B.board_init,
                               !.unfilled = B.unfilled]

\* _check_unique that never removes a value from the viable options
RECURSIVE CheckUniqueKeepFrom(_, _, _)
CheckUniqueKeepFrom(area, k, free) ==
    IF k > Len(area) THEN TRUE
    ELSE IF area[k] = 0 \/ area[k] \notin free THEN FALSE
    ELSE CheckUniqueKeepFrom(area, k + 1, free)

_check_unique_keep(area) == CheckUniqueKeepFrom(area, 1, 1..Len(area))

\* Board._check_unique from element k on, free being the values still available
RECURSIVE CheckUniqueFrom(_, _, _)
CheckUniqueFrom(area, k, free) ==
    IF k > Len(area) THEN TRUE
    ELSE IF area[k] = 0 \/ area[k] \notin free THEN FALSE
    ELSE CheckUniqueFrom(area, k + 1, free \ {area[k]})

\* Board._check_unique
_check_unique(area) == CheckUniqueFrom(area, 1, 1..Len(area))

\* Board.squares(flatten=True): the k-th square yielded (k from 0) is cut at
\* columns hr*sq.. and rows vert*sq.., hr being the outer loop, and flattened
Square(B, hr, vert) ==
    [j \in 1..B.size |->
        B.board[vert * B.size_sq + ((j - 1) \div B.size_sq)]
               [hr * B.size_sq + ((j - 1) % B.size_sq)]]

squares(B) ==
    [k \in 1..(B.size_sq * B.size_sq) |->
        Square(B, (k - 1) \div B.size_sq, (k - 1) % B.size_sq)]

\* the areas check() visits, in its order: rows, columns, squares
Areas(B) ==
    [y \in 1..B.size |-> RowSeq(B.board, B.size, y - 1)]
    \o [x \in 1..B.size |-> ColSeq(B.board, B.size, x - 1)]
    \o squares(B)

\* Board.check: (mistakes, mistakes / (3 * size)); the ratio is kept as the
\* fraction [num, den]
check(B) ==
    LET areas == Areas(B)
        mistakes == Cardinality({k \in 1..Len(areas) : ~_check_unique(areas[k])})
    IN <<mistakes, [num |-> mistakes, den |-> 3 * B.size]>>

----------------------------------------------------------------------------
(* the random source *)

\* what random.random() may return, in Denom-ths: a float of [0.0, 1.0)
Draws == 0..(Denom - 1)

\* the sequences that choose one element from each set of a sequence of sets
RECURSIVE Product(_)
Product(ss) ==
    IF ss = << >> THEN {<< >>}
    ELSE {<<h>> \o t : h \in Head(ss), t \in Product(Tail(ss))}

\* random.shuffle(pool): every ordering of the pool
Shuffles(pool) ==
    {p \in [1..Cardinality(pool) -> pool] :
        \A k1, k2 \in 1..Cardinality(pool) : k1 # k2 => p[k1] # p[k2]}

\* a sample drawn with replacement: the two places may be one
Samples_with_repeats(viable) ==
    {<<viable[ks[1]], viable[ks[2]]>> : ks \in (1..Len(viable)) \X (1..Len(viable))}

\* random.sample(viable, 2): two entries of the list at distinct places, in order
Samples(viable) ==
    {<<viable[ks[1]], viable[ks[2]]>> :
        ks \in {kk \in (1..Len(viable)) \X (1..Len(viable)) : kk[1] # kk[2]}}

----------------------------------------------------------------------------
(* solve.py: _Solver *)

Result(score, iterations) == [score |-> score, iterations |-> iterations]

\* _Solver.__init__ / _BetaHC.__init__
Solver(kind, board, max_restarts, max_iter, n, beta, stop_if_found) ==
    [kind |-> kind, board |-> board, max_iter |-> max_iter,
     max_restarts |-> max_restarts, stop_if_found |-> stop_if_found,
     board_size |-> bounds(board)[1], results |-> << >>,
     n_prob |-> n, beta_prob |-> beta]

\* _Solver._fill_line_unique raises ValueError when pool.remove(tile) does not
\* find the tile: a non-zero tile outside 1..size or met a second time
FillLineRaises(size, line) ==
    \E k \in 1..Len(line) :
        /\ line[k] # 0
        /\ \/ line[k] \notin 1..size
           \/ \E j \in 1..(k - 1) : line[j] = line[k]

\* the pool of _fill_line_unique after the taken numbers are removed
Pool(size, line) == (1..size) \ {line[k] : k \in 1..Len(line)}

\* [x if x != 0 else pool.pop() for x in line]: pop takes the pool from its end
RECURSIVE PopInto(_, _)
PopInto(line, pool) ==
    IF line = << >> THEN << >>
    ELSE IF Head(line) # 0 THEN <<Head(line)>> \o PopInto(Tail(line), pool)
    ELSE <<pool[Len(pool)]>> \o PopInto(Tail(line), SubSeq(pool, 1, Len(pool) - 1))

\* _Solver._fill_line_unique, shuffled being the pool as random.shuffle left it
_fill_line_unique(size, line, shuffled) == PopInto(line, shuffled)

\* every line _fill_line_unique may return
LineFills(size, line) ==
    {_fill_line_unique(size, line, p) : p \in Shuffles(Pool(size, line))}

\* _Solver._fill_board_unique: the Boards it may leave (the result of fill_board
\* is not looked at), or ValueError
_fill_board_unique(B) ==
    IF \E y \in Idx(B.size) : FillLineRaises(B.size, RowSeq(B.board, B.size, y))
    THEN {Raised("ValueError")}
    ELSE {fill_board(B, [n |-> B.size, g |-> [y \in Idx(B.size) |-> SeqRow(rows[y + 1])]]).B :
             rows \in Product([k \in 1..B.size |->
                                  LineFills(B.size, RowSeq(B.board, B.size, k - 1))])}

\* _swap_in_line that writes the second tile over the first and stops
_swap_in_line_overwrite(line, sample) ==
    [line EXCEPT ![sample[1] + 1] = line[sample[2] + 1]]

\* _Solver._swap_in_line, sample being the two indexes random.sample drew
_swap_in_line(line, sample) ==
    [line EXCEPT ![sample[1] + 1] = line[sample[2] + 1],
                 ![sample[2] + 1] = line[sample[1] + 1]]

\* _Solver._count_mistakes
_count_mistakes(B) == check(B)[1]

----------------------------------------------------------------------------
(* solve.py: HillClimbing *)

\* HillClimbing._step with the row and the sample drawn
HillClimbing_step(B, row, sample) ==
    fill_line(B, row, _swap_in_line(RowSeq(values(B), B.size, row), sample)).B

\* every Board HillClimbing._step may leave; randint(0, -1) raises ValueError
HillClimbing_steps(B) ==
    IF DOMAIN unfilled_by_row(B) = {} THEN {Raised("ValueError")}
    ELSE UNION {{HillClimbing_step(B, row, s) : s \in Samples(unfilled_by_row(B)[row])} :
                   row \in DOMAIN unfilled_by_row(B)}

----------------------------------------------------------------------------
(* solve.py: _BetaHC, PaperBetaHC, CustomBetaHC *)

\* _BetaHC._with_probability(prob), r being what random.random() returned
_with_probability(prob, r) == r <= prob

\* _BetaHC._with_probability: assert 0 <= prob <= 1 fails (prob in Denom-ths)
ProbRaises(prob) == ~(0 <= prob /\ prob <= Denom)

\* _with_probability(0.5)
WithProbabilityHalf(r) == 2 * r <= Denom

\* _BetaHC._generate_fill_number: random.randint(1, size)
FillNumbers(size) == 1..size

\* a grid with the cells at the positions of the list set to the values of vs
RECURSIVE Assign(_, _, _)
Assign(g, positions, vs) ==
    IF positions = << >> THEN g
    ELSE Assign([g EXCEPT ![Head(positions).y][Head(positions).x] = Head(vs)],
                Tail(positions), Tail(vs))

\* PaperBetaHC._fill_board_random from the k-th cell on (row by row): every
\* Board it may leave; a blank gets a number through Board.set
RECURSIVE FillRandomFrom(_, _)
FillRandomFrom(B, k) ==
    IF k >= B.size * B.size THEN {B}
    ELSE LET p == [x |-> k % B.size, y |-> k \div B.size] IN
         IF is_initial(B, p) THEN FillRandomFrom(B, k + 1)
         ELSE UNION {FillRandomFrom(set(B, p, new_val).B, k + 1) :
                        new_val \in FillNumbers(B.size)}

_fill_board_random(B) == FillRandomFrom(B, 0)

\* PaperBetaHC._eval_tiles
_eval_tiles(tiles) == Abs(45 - SeqSum(tiles))

\* PaperBetaHC._objective
_objective(B) ==
    LET areas == Areas(B) IN
    SeqSum([k \in 1..Len(areas) |-> _eval_tiles(areas[k])])

\* _neighbouring_val without the tests for the upper and the lower bound
_neighbouring_val_unclamped(size, val, r) ==
    IF WithProbabilityHalf(r) THEN val + 1 ELSE val - 1

\* PaperBetaHC._neighbouring_val, r being the draw of _with_probability(0.5)
_neighbouring_val(size, val, r) ==
    IF WithProbabilityHalf(r)
    THEN (IF val # size THEN val + 1 ELSE val)
    ELSE (IF val # 1 THEN val - 1 ELSE 1)

\* one tile of PaperBetaHC._neighbouring_operator under the draws r1 and r2
PaperNTile(S, val, r1, r2) ==
    IF _with_probability(S.n_prob, r1) THEN _neighbouring_val(S.board_size, val, r2)
    ELSE val

\* PaperBetaHC._neighbouring_operator: every Board it may leave
Paper_neighbouring_operator(S, B) ==
    LET ps == unfilled_positions(B) IN
    IF ps # << >> /\ ProbRaises(S.n_prob) THEN {Raised("AssertionError")}
    ELSE
    {fill_board(B, [n |-> B.size, g |-> Assign(values(B), ps, vs)]).B :
        vs \in Product([k \in 1..Len(ps) |->
                  {PaperNTile(S, values(B)[ps[k].y][ps[k].x], r1, r2) :
                      r1 \in Draws, r2 \in Draws}])}

\* one tile of PaperBetaHC._beta_operator under the draw r and the number drawn
PaperBetaTile(S, val, r, number) ==
    IF _with_probability(S.beta_prob, r) THEN number ELSE val

\* PaperBetaHC._beta_operator: every Board it may leave
Paper_beta_operator(S, B) ==
    LET ps == unfilled_positions(B) IN
    IF ps # << >> /\ ProbRaises(S.beta_prob) THEN {Raised("AssertionError")}
    ELSE
    {fill_board(B, [n |-> B.size, g |-> Assign(values(B), ps, vs)]).B :
        vs \in Product([k \in 1..Len(ps) |->
                  {PaperBetaTile(S, values(B)[ps[k].y][ps[k].x], r, number) :
                      r \in Draws, number \in FillNumbers(S.board_size)}])}

\* one row of CustomBetaHC._neighbouring_operator under the draw r and the sample
CustomNRow(S, line, r, sample) ==
    IF _with_probability(S.n_prob, r) THEN _swap_in_line(line, sample) ELSE line

\* CustomBetaHC._neighbouring_operator: every Board it may leave
Custom_neighbouring_operator(S, B) ==
    LET rows == Keys(B) IN
    IF rows # << >> /\ ProbRaises(S.n_prob) THEN {Raised("AssertionError")}
    ELSE
    {fill_board(B, [n |-> B.size, g |->
            [y \in Idx(B.size) |->
                IF \E k \in 1..Len(rows) : rows[k] = y
                THEN SeqRow(ls[CHOOSE k \in 1..Len(rows) : rows[k] = y])
                ELSE values(B)[y]]]).B :
        ls \in Product([k \in 1..Len(rows) |->
                  {CustomNRow(S, RowSeq(values(B), B.size, rows[k]), r, s) :
                      r \in Draws, s \in Samples(unfilled_by_row(B)[rows[k]])}])}

\* the line of CustomBetaHC._beta_operator with the unfilled indexes cleared
Cleared(line, indexes) ==
    [k \in 1..Len(line) |->
        IF \E j \in 1..Len(indexes) : indexes[j] = k - 1 THEN 0 ELSE line[k]]

\* CustomBetaHC._beta_operator from the k-th row of the list on: every Board it
\* may leave, or ValueError when a refill raises
RECURSIVE CustomBetaFrom(_, _, _, _)
CustomBetaFrom(S, B, rows, k) ==
    IF k > Len(rows) THEN {B}
    ELSE IF ProbRaises(S.beta_prob) THEN {Raised("AssertionError")}
    ELSE LET line == Cleared(RowSeq(values(B), B.size, rows[k]), unfilled_by_row(B)[rows[k]])
             kept == IF \E r \in Draws : ~_with_probability(S.beta_prob, r)
                     THEN CustomBetaFrom(S, B, rows, k + 1) ELSE {}
             redone ==
                 IF \A r \in Draws : ~_with_probability(S.beta_prob, r) THEN {}
                 ELSE IF FillLineRaises(S.board_size, line) THEN {Raised("ValueError")}
                 ELSE UNION {CustomBetaFrom(S, fill_line(B, rows[k], l).B, rows, k + 1) :
                                l \in LineFills(S.board_size, line)}
         IN kept \cup redone

Custom_beta_operator(S, B) == CustomBetaFrom(S, B, Keys(B), 1)

\* _BetaHC._step: the n-operator, then the beta-operator on its result
BetaHC_steps(S, B) ==
    IF S.kind = "PaperBetaHC"
    THEN UNION {IF IsRaised(B1) THEN {B1} ELSE Paper_beta_operator(S, B1) :
                   B1 \in Paper_neighbouring_operator(S, B)}
    ELSE UNION {IF IsRaised(B1) THEN {B1} ELSE Custom_beta_operator(S, B1) :
                   B1 \in Custom_neighbouring_operator(S, B)}

\* self._step(board): every Board the step of the solver's class may leave
Steps(S, B) ==
    IF S.kind = "HillClimbing" THEN HillClimbing_steps(B) ELSE BetaHC_steps(S, B)

\* self._fill(): every Board the fill of the solver's class may leave in self._board
Fills(S) ==
    IF S.kind = "PaperBetaHC" THEN _fill_board_random(S.board)
    ELSE _fill_board_unique(S.board)

\* self._eval(board)
_eval(S, B) ==
    IF S.kind = "PaperBetaHC" THEN _objective(B) ELSE _count_mistakes(B)

----------------------------------------------------------------------------
(* Inputs of the model: the sample files set_init_state reads, 4 x 4 *)

\* a solved grid
FileFull == << <<"1", "2", "3", "4">>, <<"3", "4", "1", "2">>,
               <<"2", "1", "4", "3">>, <<"4", "3", "2", "1">> >>

\* one blank in row 0: no row has two blanks
FileOne == [FileFull EXCEPT ![1] = <<"1", "2", "3", "0">>]

\* two blanks in row 0
FileTwo == [FileFull EXCEPT ![1] = <<"0", "0", "3", "4">>]

\* two blanks in row 0 and one blank in row 1
FileMix == [FileFull EXCEPT ![1] = <<"0", "0", "3", "4">>, ![2] = <<"3", "4", "1", "0">>]

\* two blanks in row 1, none in row 0
FileShift == [FileFull EXCEPT ![2] = <<"3", "0", "0", "2">>]

\* two blanks in rows 0 and 2
FileTwoRows == [FileFull EXCEPT ![1] = <<"0", "0", "3", "4">>, ![3] = <<"2", "0", "0", "3">>]

\* a well-formed file whose row 0 holds a number twice
FileDup == [FileFull EXCEPT ![1] = <<"1", "1", "0", "0">>]

\* malformed: three rows; five rows; a token that is no number; a short row
FileShort == << <<"4", "3", "2", "1">>, <<"3", "4", "1", "2">>, <<"2", "1", "4", "3">> >>
FileLong == FileFull \o << <<"1", "2", "3", "4">> >>
FileToken == [FileFull EXCEPT ![2] = <<"3", "x", "1", "2">>]
FileRow == [FileFull EXCEPT ![1] = <<"4", "3", "2", "1">>, ![2] = <<"3", "4", "1">>]

\* the numpy array of a well-formed file
GridOf(file) ==
    [y \in Idx(Len(file)) |-> [x \in Idx(Len(file)) |-> convert_safe(file[y + 1][x + 1])[1]]]

\* a Board of the file's size after a successful set_init_state
Loaded(file) == set_init_state(Board(Len(file)), file).B

----------------------------------------------------------------------------
(* SpecBoard: a Board under any sequence of calls of its methods and of the   *)
(* solvers' fill and step operators.  set_init_state is called until it     *)
(* succeeds; board_copy is the copy made of b since b last changed.          *)

\* the files set_init_state is given (None: no file at the path)
BoardFiles == {None, FileTwo, FileShift, FileRow}

\* the positions and values set is called with
SetPositions ==
    {[x |-> 0, y |-> 0], [x |-> 2, y |-> 0], [x |-> -1, y |-> 0], [x |-> 1, y |-> 4]}
SetValues == {0, 5}

\* the lines fill_line is called with, and the line numbers
LineInputs == {<<2, 1, 3, 4>>, <<2, 1, 4, 4>>, <<1, 2, 3>>}
LineNumbers == {0, 1, 4}

\* the arrays fill_board is called with
BoardInputs ==
    {[n |-> 4, g |-> GridOf(FileFull)],
     [n |-> 4, g |-> [GridOf(FileFull) EXCEPT ![0] = [x \in Idx(4) |-> 4 - x]]],
     [n |-> 1, g |-> Zeros(1)]}

\* the probabilities n and beta of the solver whose operators are applied
OpProbs == {0, Denom}
OpSolver(n, beta) == Solver("op", Board(4), 1, 1, n, beta, FALSE)

InitBoard ==
    /\ b = Board(4)
    /\ board_copy = None
    /\ ret = NoReturn
    /\ last = [op |-> "init"]
    /\ solver = None /\ best = None /\ score_min = 0 /\ itr_min = 0 /\ restart = 0
    /\ climb = None /\ pc = "board" /\ calls = 0 /\ work = None

driverVars == <<solver, best, score_min, itr_min, restart, climb, pc, calls, work>>

\* b.set_init_state(), called until it succeeds
Load(file) ==
    /\ pc = "board"
    /\ b.board_init = None
    /\ b' = set_init_state(b, file).B
    /\ ret' = set_init_state(b, file).ret
    /\ last' = [op |-> "load", file |-> file]
    /\ board_copy' = None
    /\ UNCHANGED driverVars

\* b.set(pos, val)
Set(pos, val) ==
    /\ pc = "board"
    /\ b' = set(b, pos, val).B
    /\ ret' = set(b, pos, val).ret
    /\ last' = [op |-> "set", pos |-> pos, val |-> val]
    /\ board_copy' = None
    /\ UNCHANGED driverVars

\* b.fill_line(line_num, values)
FillLine(line_num, vals) ==
    /\ pc = "board"
    /\ b' = fill_line(b, line_num, vals).B
    /\ ret' = fill_line(b, line_num, vals).ret
    /\ last' = [op |-> "fill_line", line_num |-> line_num, vals |-> vals]
    /\ board_copy' = None
    /\ UNCHANGED driverVars

\* b.fill_board(values)
FillBoard(vals) ==
    /\ pc = "board"
    /\ b' = fill_board(b, vals).B
    /\ ret' = fill_board(b, vals).ret
    /\ last' = [op |-> "fill_board", vals |-> vals]
    /\ board_copy' = None
    /\ UNCHANGED driverVars

\* b.reset()
Reset ==
    /\ pc = "board"
    /\ b' = reset(b).B
    /\ ret' = reset(b).ret
    /\ last' = [op |-> "reset"]
    /\ board_copy' = None
    /\ UNCHANGED driverVars

\* board_copy = b.copy()
Copy ==
    /\ pc = "board"
    /\ board_copy' = copy(b)
    /\ ret' = IF copy(b) = None THEN "AttributeError" ELSE NoReturn
    /\ last' = [op |-> "copy"]
    /\ UNCHANGED <<b, driverVars>>

\* the fill of a solver whose self._board is b (b has an initial state)
OpFill(kind) ==
    /\ pc = "board"
    /\ b.board_init # None
    /\ \E B1 \in Fills([kind |-> kind, board |-> b]) :
          /\ b' = IF IsRaised(B1) THEN b ELSE B1
          /\ ret' = IF IsRaised(B1) THEN B1.exc ELSE NoReturn
    /\ last' = [op |-> "fill", kind |-> kind]
    /\ board_copy' = None
    /\ UNCHANGED driverVars

\* every cell holds a number of 1..size, as after a fill of a solver
IsFilled(B) == \A y \in Idx(B.size), x \in Idx(B.size) : B.board[y][x] \in 1..B.size

\* the step of a solver applied to the copy of a filled Board, as _climb applies it
OpStep(kind, n, beta) ==
    /\ pc = "board"
    /\ board_copy # None
    /\ IsFilled(board_copy)
    /\ \E B1 \in Steps([OpSolver(n, beta) EXCEPT !.kind = kind], board_copy) :
          /\ board_copy' = IF IsRaised(B1) THEN board_copy ELSE B1
          /\ ret' = IF IsRaised(B1) THEN B1.exc ELSE NoReturn
    /\ last' = [op |-> "step", kind |-> kind, n |-> n, beta |-> beta]
    /\ UNCHANGED <<b, driverVars>>

\* self._neighbouring_operator(board): every Board the n-operator of the
\* solver's class may leave
NeighbouringOperator(S, B) ==
    IF S.kind = "PaperBetaHC" THEN Paper_neighbouring_operator(S, B)
    ELSE Custom_neighbouring_operator(S, B)

\* the n-operator alone, applied to the copy of a filled Board as _step applies it
OpNeighbour(kind, n) ==
    /\ pc = "board"
    /\ board_copy # None
    /\ IsFilled(board_copy)
    /\ \E B1 \in NeighbouringOperator([OpSolver(n, 0) EXCEPT !.kind = kind], board_copy) :
          /\ board_copy' = IF IsRaised(B1) THEN board_copy ELSE B1
          /\ ret' = IF IsRaised(B1) THEN B1.exc ELSE NoReturn
    /\ last' = [op |-> "n_operator", kind |-> kind, n |-> n]
    /\ UNCHANGED <<b, driverVars>>

Kinds == {"HillClimbing", "PaperBetaHC", "CustomBetaHC"}

NextBoard ==
    \/ \E file \in BoardFiles : Load(file)
    \/ \E pos \in SetPositions, val \in SetValues : Set(pos, val)
    \/ \E line_num \in LineNumbers, vals \in LineInputs : FillLine(line_num, vals)
    \/ \E vals \in BoardInputs : FillBoard(vals)
    \/ Reset
    \/ Copy
    \/ \E kind \in Kinds : OpFill(kind)
    \/ OpStep("HillClimbing", 0, 0)
    \/ \E kind \in Kinds \ {"HillClimbing"}, n \in OpProbs, beta \in OpProbs :
          OpStep(kind, n, beta)
    \/ \E kind \in Kinds \ {"HillClimbing"}, n \in OpProbs : OpNeighbour(kind, n)

SpecBoard == InitBoard /\ [][NextBoard]_vars

----------------------------------------------------------------------------
(* Spec: try_solve of a solver built on a Board that was loaded once *)

\* _solve that never takes the trivial case
IsTrivial_never(S) == FALSE

\* _solve: len(self._board.unfilled_by_row()) == 0
IsTrivial(S) == Cardinality(DOMAIN unfilled_by_row(S.board)) = 0

\* _solve_trivial that records no result
_solve_trivial_empty(S) == [results |-> << >>, ret |-> Result(0, 0)]

\* _Solver._solve_trivial: [results, ret]
_solve_trivial(S) ==
    [results |-> [k \in 1..S.max_restarts |-> Result(0, 0)], ret |-> Result(0, 0)]

\* _climb that takes a candidate only when it is strictly better
Accepts_strict(score, climb_min) == score < climb_min

\* _climb: if score <= score_min
Accepts(score, climb_min) == score <= climb_min

\* _solve that ignores stop_if_found
StopNow_never(S, score) == FALSE

\* _solve: if self._stop_if_found and score == 0
StopNow(S, score) == S.stop_if_found /\ score = 0

\* "update best run" without its second if statement
UpdateBest_first(score, itr, cur, B) ==
    IF score < cur.score_min
    THEN [score_min |-> score, itr_min |-> itr, best |-> copy(B)]
    ELSE cur

\* _solve, "update best run": the two if statements in their order, on
\* [score_min, itr_min, best]
UpdateBest(score, itr, cur, B) ==
    LET one == IF score < cur.score_min
               THEN [score_min |-> score, itr_min |-> itr, best |-> copy(B)]
               ELSE cur
    IN IF score = one.score_min /\ itr < one.itr_min
       THEN [score_min |-> score, itr_min |-> itr, best |-> copy(B)]
       ELSE one

\* the solvers of the model: class, sample file, n, beta, and the pairs
\* (max_restarts, max_iter) the class is run with
HalfProb == Denom \div 2
AllBudgets == (1..MaxRestarts) \X (1..MaxIter)
PaperBudgets == ({1} \X (1..MaxIter)) \cup {<<2, 1>>}
DriverCases ==
    {<<"HillClimbing", f, 0, 0, bud>> :
        f \in {FileFull, FileOne, FileTwo, FileMix, FileTwoRows, FileDup}, bud \in AllBudgets}
    \cup {<<"CustomBetaHC", f, HalfProb, HalfProb, bud>> :
        f \in {FileOne, FileTwo, FileTwoRows}, bud \in AllBudgets}
    \cup {<<"PaperBetaHC", f, HalfProb, HalfProb, bud>> :
        f \in {FileFull, FileOne, FileTwo}, bud \in PaperBudgets}
    \cup {<<"CustomBetaHC", f, Denom + 1, HalfProb, <<1, 1>> >> : f \in {FileOne, FileTwo}}
    \cup {<<"PaperBetaHC", FileTwo, 0, -1, <<1, 1>> >>}

NoWork == [fills |-> 0, steps |-> 0, evals |-> 0, path |-> "none"]

Init ==
    /\ \E c \in DriverCases, stop_if_found \in BOOLEAN :
          solver = Solver(c[1], Loaded(c[2]), c[5][1], c[5][2], c[3], c[4], stop_if_found)
    /\ b = None /\ board_copy = None
    /\ ret = None /\ last = [op |-> "init"]
    /\ best = None /\ score_min = INFINITY /\ itr_min = INFINITY /\ restart = 0
    /\ climb = None /\ pc = "idle" /\ calls = 0 /\ work = NoWork

\* try_solve up to the for loop of _solve: the reset, and the trivial case whole
TrySolve ==
    /\ pc \in {"idle", "done"}
    /\ LET S1 == [solver EXCEPT !.board = reset(solver.board).B, !.results = << >>] IN
       IF IsTrivial(S1)
       THEN /\ solver' = [S1 EXCEPT !.results = _solve_trivial(S1).results]
            /\ ret' = _solve_trivial(S1).ret
            /\ pc' = "done"
            /\ work' = [NoWork EXCEPT !.path = "trivial"]
       ELSE /\ solver' = S1
            /\ ret' = None
            /\ pc' = "fill"
            /\ work' = NoWork
    /\ best' = None /\ score_min' = INFINITY /\ itr_min' = INFINITY /\ restart' = 0
    /\ climb' = None /\ board_copy' = None
    /\ calls' = IF calls = 0 THEN 1 ELSE 2
    /\ last' = [op |-> "try_solve"]
    /\ UNCHANGED b

\* one pass of the for loop of _solve begins: self._fill(), then the first
\* line of _climb, score_min = self._eval(self._board)
Fill ==
    /\ pc = "fill"
    /\ \E B1 \in Fills(solver) :
          IF IsRaised(B1)
          THEN /\ pc' = "raised"
               /\ UNCHANGED <<solver, climb, work>>
          ELSE /\ solver' = [solver EXCEPT !.board = B1]
               /\ climb' = [score_min |-> _eval(solver, B1), i |-> 0,
                            start |-> _eval(solver, B1), final |-> None]
               /\ pc' = "climb"
               /\ work' = [work EXCEPT !.fills = @ + 1, !.evals = @ + 1]
    /\ restart' = restart + 1
    /\ last' = [op |-> "fill"]
    /\ UNCHANGED <<b, board_copy, ret, best, score_min, itr_min, calls>>

\* one pass of the for loop of _climb; climb.score_min and climb.i are the pair
\* _climb returns when the pass is its last one
Step ==
    /\ pc = "climb"
    /\ climb.i < solver.max_iter
    /\ \E C \in Steps(solver, copy(solver.board)) :
          IF IsRaised(C)
          THEN /\ pc' = "raised"
               /\ UNCHANGED <<solver, climb, work, board_copy>>
          ELSE LET score == _eval(solver, C)
                   accept == Accepts(score, climb.score_min)
               IN /\ board_copy' = C
                  /\ solver' = IF accept THEN [solver EXCEPT !.board = C] ELSE solver
                  /\ climb' = [climb EXCEPT
                                 !.score_min = IF accept THEN score ELSE @,
                                 !.i = IF accept /\ score = 0 THEN climb.i + 1
                                       ELSE IF climb.i + 1 = solver.max_iter
                                            THEN solver.max_iter ELSE climb.i + 1,
                                 !.final = IF (accept /\ score = 0)
                                              \/ climb.i + 1 = solver.max_iter
                                           THEN (IF accept THEN C ELSE solver.board)
                                           ELSE None]
                  /\ pc' = IF (accept /\ score = 0) \/ climb.i + 1 = solver.max_iter
                           THEN "record" ELSE "climb"
                  /\ work' = [work EXCEPT !.steps = @ + 1, !.evals = @ + 1]
    /\ last' = [op |-> "step"]
    /\ UNCHANGED <<b, ret, best, score_min, itr_min, restart, calls>>

\* the rest of the pass of _solve after _climb returned (score, itr); the
\* board_copy of _climb is gone
Record ==
    /\ pc = "record"
    /\ LET score == climb.score_min
           itr == climb.i
           res == Result(score, itr)
           S1 == [solver EXCEPT !.results = Append(@, res)]
           upd == UpdateBest(score, itr,
                             [score_min |-> score_min, itr_min |-> itr_min, best |-> best],
                             solver.board)
       IN IF StopNow(solver, score)
          THEN /\ solver' = S1
               /\ ret' = res
               /\ pc' = "done"
               /\ work' = [work EXCEPT !.path = "stopped"]
               /\ UNCHANGED <<best, score_min, itr_min>>
          ELSE /\ best' = upd.best
               /\ score_min' = upd.score_min
               /\ itr_min' = upd.itr_min
               /\ solver' = [S1 EXCEPT !.board = reset(solver.board).B]
               /\ pc' = IF restart < solver.max_restarts THEN "fill" ELSE "finish"
               /\ UNCHANGED <<ret, work>>
    /\ board_copy' = None
    /\ last' = [op |-> "record"]
    /\ UNCHANGED <<b, restart, climb, calls>>

\* after the for loop of _solve: self._board = best, and the return
Finish ==
    /\ pc = "finish"
    /\ solver' = [solver EXCEPT !.board = best]
    /\ ret' = Result(score_min, itr_min)
    /\ pc' = "done"
    /\ work' = [work EXCEPT !.path = "exhausted"]
    /\ last' = [op |-> "finish"]
    /\ UNCHANGED <<b, board_copy, best, score_min, itr_min, restart, climb, calls>>

Next == TrySolve \/ Fill \/ Step \/ Record \/ Finish

Spec == Init /\ [][Next]_vars

\* the runs that are followed to their end: every HillClimbing solver of the
\* model, and the CustomBetaHC solvers with one restart of one step
InitLive ==
    /\ Init
    /\ \/ solver.kind = "HillClimbing"
       \/ solver.kind = "CustomBetaHC" /\ solver.max_restarts * solver.max_iter = 1

\* try_solve on a thread that keeps running: a call that can take its next step
\* takes it (when try_solve is called again is up to the caller)
SpecLive ==
    InitLive /\ [][Next]_vars /\ WF_vars(Fill \/ Step \/ Record \/ Finish)

----------------------------------------------------------------------------
(* SpecEval: check() and the deviation objective applied to grids of size 4 *)
(* and 9: a base grid written into a Board loaded from an all-blank file,   *)
(* then up to MaxEdits cells overwritten through set                        *)

EvalSizes == {4, 9}

\* a file of size x size zeros
BlankFile(n) == [y \in 1..n |-> [x \in 1..n |-> "0"]]

\* a valid solution of size n
SolvedGrid(n) ==
    [y \in Idx(n) |-> [x \in Idx(n) |-> ((ISqrt(n) * (y % ISqrt(n)) + (y \div ISqrt(n)) + x) % n) + 1]]

\* a grid whose every row, column and block has the sum of a solved one but
\* holds numbers more than once
SumOnlyGrid(n) ==
    [y \in Idx(n) |-> [x \in Idx(n) |->
        IF n % 2 = 1 THEN (n + 1) \div 2 ELSE IF (x + y) % 2 = 0 THEN 1 ELSE n]]

EvalBases(n) == {SolvedGrid(n), SumOnlyGrid(n), Zeros(n)}

EvalPositions(n) ==
    {[x |-> 0, y |-> 0], [x |-> 1, y |-> 0], [x |-> 0, y |-> 1], [x |-> n - 1, y |-> n - 1]}
EvalValues(n) == {0, 1, n, n + 1}

NotEvaluated == [mistakes |-> -1, ratio |-> [num |-> -1, den |-> 1], objective |-> -1]

InitEval ==
    /\ \E n \in EvalSizes : \E base \in EvalBases(n) :
          b = fill_board(Loaded(BlankFile(n)), [n |-> n, g |-> base]).B
    /\ board_copy = None
    /\ ret = NotEvaluated
    /\ last = [op |-> "init"]
    /\ solver = None /\ best = None /\ score_min = 0 /\ itr_min = 0 /\ restart = 0
    /\ climb = None /\ pc = "eval" /\ calls = 0 /\ work = [edits |-> 0]

\* b.set(pos, val) on a blank cell of the puzzle
EvalEdit(pos, val) ==
    /\ pc = "eval"
    /\ work.edits < MaxEdits
    /\ b' = set(b, pos, val).B
    /\ ret' = NotEvaluated
    /\ work' = [edits |-> work.edits + 1]
    /\ last' = [op |-> "set"]
    /\ UNCHANGED <<board_copy, solver, best, score_min, itr_min, restart, climb, pc, calls>>

\* b.check()
EvalCheck ==
    /\ pc = "eval"
    /\ ret' = [ret EXCEPT !.mistakes = check(b)[1], !.ratio = check(b)[2]]
    /\ last' = [op |-> "check"]
    /\ UNCHANGED <<b, board_copy, solver, best, score_min, itr_min, restart, climb, pc,
                   calls, work>>

\* PaperBetaHC._objective(b)
EvalObjective ==
    /\ pc = "eval"
    /\ ret' = [ret EXCEPT !.objective = _objective(b)]
    /\ last' = [op |-> "objective"]
    /\ UNCHANGED <<b, board_copy, solver, best, score_min, itr_min, restart, climb, pc,
                   calls, work>>

NextEval ==
    \/ \E pos \in EvalPositions(b.size), val \in EvalValues(b.size) : EvalEdit(pos, val)
    \/ EvalCheck
    \/ EvalObjective

SpecEval == InitEval /\ [][NextEval]_vars

----------------------------------------------------------------------------
(* SpecLoad: set_init_state called again and again on one Board, the sample *)
(* file having any of the modelled contents at each call                    *)

\* the contents of the sample file (None: no file at the path)
LoadFiles ==
    {None, FileFull, FileOne, FileTwo, FileMix, FileShift, FileTwoRows, FileDup,
     FileShort, FileLong, FileToken, FileRow}

InitLoad ==
    /\ b = Board(4)
    /\ board_copy = None
    /\ ret = NoReturn
    /\ last = [op |-> "init"]
    /\ solver = None /\ best = None /\ score_min = 0 /\ itr_min = 0 /\ restart = 0
    /\ climb = None /\ pc = "load" /\ calls = 0 /\ work = [loads |-> 0]

\* b.set_init_state() on a Board in whatever state the earlier calls left it
LoadAgain(file) ==
    /\ pc = "load"
    /\ work.loads < MaxLoads
    /\ b' = set_init_state(b, file).B
    /\ ret' = set_init_state(b, file).ret
    /\ last' = [op |-> "load", file |-> file]
    /\ work' = [loads |-> work.loads + 1]
    /\ UNCHANGED <<board_copy, solver, best, score_min, itr_min, restart, climb, pc, calls>>

\* b.set(pos, val) between two calls of set_init_state
LoadSet(pos, val) ==
    /\ pc = "load"
    /\ b.board_init # None
    /\ b' = set(b, pos, val).B
    /\ ret' = set(b, pos, val).ret
    /\ last' = [op |-> "set", pos |-> pos, val |-> val]
    /\ UNCHANGED <<board_copy, solver, best, score_min, itr_min, restart, climb, pc, calls,
                   work>>

NextLoad ==
    \/ \E file \in LoadFiles : LoadAgain(file)
    \/ \E val \in 1..2 : LoadSet([x |-> 0, y |-> 0], val)

SpecLoad == InitLoad /\ [][NextLoad]_vars

----------------------------------------------------------------------------
(* SpecHeap: try_solve with the Boards as python objects.  A Board object   *)
(* refers to its two numpy arrays and, through its dict, to the index lists *)
(* of its rows; self._board, board_copy, best and the caller's variable are *)
(* references to Board objects.  work is the heap; an object, array or list *)
(* that no reference leads to any more is freed.                            *)

\* the reference None
NoRef == 0

\* a new numpy array holding the grid g, at the lowest free place: [h, ref]
NewArray(h, g) ==
    LET a == CHOOSE i \in DOMAIN h.arr :
                 h.arr[i] = None /\ \A j \in DOMAIN h.arr : j < i => h.arr[j] # None
    IN [h |-> [h EXCEPT !.arr[a] = g], ref |-> a]

\* the Board the object holds, by value
Deref(h, id) ==
    LET o == h.obj[id] IN
    [size |-> o.size, size_sq |-> o.size_sq, board |-> h.arr[o.board],
     board_init |-> h.arr[o.board_init],
     unfilled |-> [row \in DOMAIN o.unfilled |-> h.lst[o.unfilled[row]]]]

\* copy whose new Board refers to the array of values of the original
HeapCopy_shared(h, id) ==
    LET a2 == NewArray(h, h.arr[h.obj[id].board_init])
        o == CHOOSE i \in DOMAIN h.obj :
                 h.obj[i] = None /\ \A j \in DOMAIN h.obj : j < i => h.obj[j] # None
    IN [h |-> [a2.h EXCEPT !.obj[o] = [h.obj[id] EXCEPT !.board_init = a2.ref]],
        ref |-> o]

\* Board.copy: a new Board object with copies of the two arrays and a copy of
\* the dict, whose values are the index lists of the original: [h, ref]
HeapCopy(h, id) ==
    LET a1 == NewArray(h, h.arr[h.obj[id].board])
        a2 == NewArray(a1.h, h.arr[h.obj[id].board_init])
        o == CHOOSE i \in DOMAIN h.obj :
                 h.obj[i] = None /\ \A j \in DOMAIN h.obj : j < i => h.obj[j] # None
    IN [h |-> [a2.h EXCEPT !.obj[o] =
                  [h.obj[id] EXCEPT !.board = a1.ref, !.board_init = a2.ref]],
        ref |-> o]

\* self._board[...] = ... (fill_line, set): the array of the object is written
StoreInPlace(h, id, g) == [h EXCEPT !.arr[h.obj[id].board] = g]

\* self._board = ... (fill_board, reset): the object refers to a new array
StoreNew(h, id, g) ==
    LET a == NewArray(h, g) IN [a.h EXCEPT !.obj[id].board = a.ref]

\* Board.reset on an object
HeapReset(h, id) == StoreNew(h, id, h.arr[h.obj[id].board_init])

\* self._fill() on the object: _fill_board_random writes through Board.set,
\* _fill_board_unique hands a new array to fill_board
HeapFills(S, h, id) ==
    {IF IsRaised(B1) THEN B1
     ELSE IF S.kind = "PaperBetaHC" THEN StoreInPlace(h, id, B1.board)
     ELSE StoreNew(h, id, B1.board) :
        B1 \in Fills([S EXCEPT !.board = Deref(h, id)])}

\* self._step(board) on the object: HillClimbing writes the row through
\* fill_line; the operators of PaperBetaHC and the n-operator of CustomBetaHC
\* hand a copy of the values to fill_board, and the beta-operator of
\* CustomBetaHC then writes rows of that new array through fill_line
HeapSteps(S, h, id) ==
    {IF IsRaised(B1) THEN B1
     ELSE IF S.kind = "HillClimbing" THEN StoreInPlace(h, id, B1.board)
     ELSE StoreNew(h, id, B1.board) :
        B1 \in Steps(S, Deref(h, id))}

\* the heap once everything the references of roots do not lead to is freed.
\* What is left is numbered in the order the roots reach it, so that two heaps
\* with the same objects referring to each other alike are one state; at gives
\* the new number of each root.
Sweep(h, roots) ==
    LET \* the entries of a list in the order they first come, None left out
        RECURSIVE Dedup(_)
        Dedup(q) ==
            IF q = << >> THEN << >>
            ELSE LET t == Dedup(SubSeq(q, 1, Len(q) - 1))
                     x == q[Len(q)]
                 IN IF x = NoRef \/ \E k \in 1..Len(t) : t[k] = x THEN t ELSE Append(t, x)
        IndexOf(q, x) == CHOOSE k \in 1..Len(q) : q[k] = x
        \* the arrays, and the index lists, the objects of a list refer to
        RECURSIVE ArraysOf(_)
        ArraysOf(os) ==
            IF os = << >> THEN << >>
            ELSE <<h.obj[Head(os)].board, h.obj[Head(os)].board_init>> \o ArraysOf(Tail(os))
        RECURSIVE ListsOf(_)
        ListsOf(os) ==
            IF os = << >> THEN << >>
            ELSE LET o == h.obj[Head(os)]
                     keys == KeysFrom(o.unfilled, 0, o.size)
                 IN [k \in 1..Len(keys) |-> o.unfilled[keys[k]]] \o ListsOf(Tail(os))
        objs == Dedup(roots)
        arrs == Dedup(ArraysOf(objs))
        lsts == Dedup(ListsOf(objs))
    IN [h |-> [obj |-> [i \in DOMAIN h.obj |->
                          IF i <= Len(objs)
                          THEN LET o == h.obj[objs[i]] IN
                               [size |-> o.size, size_sq |-> o.size_sq,
                                board |-> IndexOf(arrs, o.board),
                                board_init |-> IndexOf(arrs, o.board_init),
                                unfilled |-> [row \in DOMAIN o.unfilled |->
                                                 IndexOf(lsts, o.unfilled[row])]]
                          ELSE None],
               arr |-> [i \in DOMAIN h.arr |-> IF i <= Len(arrs) THEN h.arr[arrs[i]] ELSE None],
               lst |-> [i \in DOMAIN h.lst |-> IF i <= Len(lsts) THEN h.lst[lsts[i]] ELSE None]],
        at |-> [k \in 1..Len(roots) |->
                   IF roots[k] = NoRef THEN NoRef ELSE IndexOf(objs, roots[k])]]

\* the heap after Board(size).set_init_state() made the Board B: object 1 with
\* the array of values, its copy _board_init and one index list for each key.
\* The heap has room for 5 Board objects, 12 arrays and 4 index lists.
HeapOf(B) ==
    LET place(row) == 1 + Cardinality({r \in DOMAIN B.unfilled : r < row}) IN
    [obj |-> [i \in 1..5 |->
                 IF i = 1
                 THEN [size |-> B.size, size_sq |-> B.size_sq, board |-> 1, board_init |-> 2,
                       unfilled |-> [row \in DOMAIN B.unfilled |-> place(row)]]
                 ELSE None],
     arr |-> [i \in 1..12 |-> IF i = 1 THEN B.board ELSE IF i = 2 THEN B.board_init ELSE None],
     lst |-> [i \in 1..4 |->
                 IF \E row \in DOMAIN B.unfilled : place(row) = i
                 THEN B.unfilled[CHOOSE row \in DOMAIN B.unfilled : place(row) = i]
                 ELSE None]]

\* the solvers run on the heap: class, sample file, max_restarts and max_iter
InitHeap ==
    /\ \E c \in {<<"HillClimbing", FileTwoRows, MaxRestarts, MaxIter>>,
                 <<"CustomBetaHC", FileTwo, MaxRestarts, MaxIter>>,
                 <<"PaperBetaHC", FileTwo, 1, 1>>},
          stop_if_found \in BOOLEAN :
          /\ solver = [Solver(c[1], Loaded(c[2]), c[3], c[4], HalfProb, HalfProb,
                              stop_if_found) EXCEPT !.board = 1]
          /\ work = HeapOf(Loaded(c[2]))
    /\ b = 1 /\ board_copy = NoRef /\ best = NoRef
    /\ ret = None /\ last = [op |-> "init"]
    /\ score_min = INFINITY /\ itr_min = INFINITY /\ restart = 0
    /\ climb = None /\ pc = "h_idle" /\ calls = 0

\* try_solve up to the for loop of _solve
HeapTrySolve ==
    /\ pc \in {"h_idle", "h_done"}
    /\ LET z == Sweep(HeapReset(work, solver.board), <<b, solver.board>>)
           S1 == [solver EXCEPT !.results = << >>, !.board = z.at[2]]
       IN /\ work' = z.h
          /\ b' = z.at[1]
          /\ IF IsTrivial([board |-> Deref(z.h, z.at[2])])
             THEN /\ solver' = [S1 EXCEPT !.results = _solve_trivial(S1).results]
                  /\ ret' = _solve_trivial(S1).ret
                  /\ pc' = "h_done"
             ELSE /\ solver' = S1
                  /\ ret' = None
                  /\ pc' = "h_fill"
    /\ best' = NoRef /\ score_min' = INFINITY /\ itr_min' = INFINITY /\ restart' = 0
    /\ climb' = None /\ board_copy' = NoRef
    /\ calls' = IF calls = 0 THEN 1 ELSE 2
    /\ last' = [op |-> "try_solve"]

\* self._fill() and the first line of _climb
HeapFill ==
    /\ pc = "h_fill"
    /\ \E h1 \in HeapFills(solver, work, solver.board) :
          IF IsRaised(h1)
          THEN /\ pc' = "raised"
               /\ UNCHANGED <<climb, work, b, solver, best>>
          ELSE LET z == Sweep(h1, <<b, solver.board, best>>) IN
               /\ work' = z.h
               /\ b' = z.at[1]
               /\ solver' = [solver EXCEPT !.board = z.at[2]]
               /\ best' = z.at[3]
               /\ climb' = [score_min |-> _eval(solver, Deref(h1, solver.board)), i |-> 0]
               /\ pc' = "h_climb"
    /\ restart' = restart + 1
    /\ last' = [op |-> "fill"]
    /\ UNCHANGED <<board_copy, ret, score_min, itr_min, calls>>

\* one pass of the for loop of _climb: the copy, the step on the copy, and the
\* assignment self._board = board_copy when the candidate is taken
HeapStep ==
    /\ pc = "h_climb"
    /\ climb.i < solver.max_iter
    /\ LET c == HeapCopy(work, solver.board) IN
       \E h1 \in HeapSteps(solver, c.h, c.ref) :
          IF IsRaised(h1)
          THEN /\ pc' = "raised"
               /\ UNCHANGED <<solver, climb, work, board_copy, b, best>>
          ELSE LET score == _eval(solver, Deref(h1, c.ref))
                   accept == Accepts(score, climb.score_min)
                   z == Sweep(h1, <<b, IF accept THEN c.ref ELSE solver.board, c.ref, best>>)
               IN /\ work' = z.h
                  /\ b' = z.at[1]
                  /\ solver' = [solver EXCEPT !.board = z.at[2]]
                  /\ board_copy' = z.at[3]
                  /\ best' = z.at[4]
                  /\ climb' = [score_min |-> IF accept THEN score ELSE climb.score_min,
                               i |-> climb.i + 1]
                  /\ pc' = IF (accept /\ score = 0) \/ climb.i + 1 = solver.max_iter
                           THEN "h_record" ELSE "h_climb"
    /\ last' = [op |-> "step"]
    /\ UNCHANGED <<ret, score_min, itr_min, restart, calls>>

\* the rest of the pass of _solve: best = self._board.copy() when the run is
\* the best one, and self._board.reset()
HeapRecord ==
    /\ pc = "h_record"
    /\ LET score == climb.score_min
           itr == climb.i
           res == Result(score, itr)
           S1 == [solver EXCEPT !.results = Append(@, res)]
           upd == UpdateBest(score, itr,
                             [score_min |-> score_min, itr_min |-> itr_min, best |-> None],
                             Deref(work, solver.board))
           c == IF upd.best # None THEN HeapCopy(work, solver.board)
                ELSE [h |-> work, ref |-> best]
       IN IF StopNow(solver, score)
          THEN LET z == Sweep(work, <<b, solver.board>>) IN
               /\ work' = z.h
               /\ b' = z.at[1]
               /\ solver' = [S1 EXCEPT !.board = z.at[2]]
               /\ ret' = res
               /\ pc' = "h_done"
               /\ best' = NoRef
               /\ UNCHANGED <<score_min, itr_min>>
          ELSE LET z == Sweep(HeapReset(c.h, solver.board), <<b, solver.board, c.ref>>) IN
               /\ work' = z.h
               /\ b' = z.at[1]
               /\ solver' = [S1 EXCEPT !.board = z.at[2]]
               /\ best' = z.at[3]
               /\ score_min' = upd.score_min
               /\ itr_min' = upd.itr_min
               /\ pc' = IF restart < solver.max_restarts THEN "h_fill" ELSE "h_finish"
               /\ UNCHANGED ret
    /\ board_copy' = NoRef
    /\ last' = [op |-> "record"]
    /\ UNCHANGED <<restart, climb, calls>>

\* after the for loop of _solve: self._board = best, and the return
HeapFinish ==
    /\ pc = "h_finish"
    /\ LET z == Sweep(work, <<b, best>>) IN
       /\ work' = z.h
       /\ b' = z.at[1]
       /\ solver' = [solver EXCEPT !.board = z.at[2]]
    /\ ret' = Result(score_min, itr_min)
    /\ pc' = "h_done"
    /\ best' = NoRef
    /\ last' = [op |-> "finish"]
    /\ UNCHANGED <<board_copy, score_min, itr_min, restart, climb, calls>>

NextHeap == HeapTrySolve \/ HeapFill \/ HeapStep \/ HeapRecord \/ HeapFinish

SpecHeap == InitHeap /\ [][NextHeap]_vars

----------------------------------------------------------------------------
(* SpecAll: the Board under its callers and the solvers' operators, and the *)
(* solver runs                                                              *)

SpecAll == (InitBoard \/ Init) /\ [][NextBoard \/ Next]_vars

----------------------------------------------------------------------------
(* What the claims say, stated apart from the code's own computation *)

\* the cells of the constraint areas of a size x size grid, as <<y, x>> pairs
RowCells(n) == {{<<y, x>> : x \in Idx(n)} : y \in Idx(n)}
ColCells(n) == {{<<y, x>> : y \in Idx(n)} : x \in Idx(n)}
BlockCells(n) ==
    {{<<y, x>> : y \in (br * ISqrt(n))..(br * ISqrt(n) + ISqrt(n) - 1),
                 x \in (bc * ISqrt(n))..(bc * ISqrt(n) + ISqrt(n) - 1)} :
        br \in Idx(ISqrt(n)), bc \in Idx(ISqrt(n))}
AreaCells(n) == RowCells(n) \cup ColCells(n) \cup BlockCells(n)

\* the area holds every number of 1..size (so each exactly once)
IsPermutation(B, cells) == {B.board[c[1]][c[2]] : c \in cells} = 1..B.size

BadAreas(B) == {cells \in AreaCells(B.size) : ~IsPermutation(B, cells)}

RECURSIVE CellSum(_, _)
CellSum(B, cells) ==
    IF cells = {} THEN 0
    ELSE LET c == CHOOSE c \in cells : TRUE IN B.board[c[1]][c[2]] + CellSum(B, cells \ {c})

TargetSum(n) == (n * (n + 1)) \div 2

RECURSIVE DeviationOver(_, _)
DeviationOver(B, areas) ==
    IF areas = {} THEN 0
    ELSE LET a == CHOOSE a \in areas : TRUE IN
         Abs(TargetSum(B.size) - CellSum(B, a)) + DeviationOver(B, areas \ {a})

\* every tile the initial state sets still holds its initial value
Kept(B) ==
    (B # None /\ B.board_init # None) =>
        \A y \in Idx(B.size), x \in Idx(B.size) :
            B.board_init[y][x] # 0 => B.board[y][x] = B.board_init[y][x]

\* no row of the initial state has two or more blanks
NoRowWithTwoBlanks(B) ==
    \A y \in Idx(B.size) : Cardinality({x \in Idx(B.size) : B.board_init[y][x] = 0}) < 2

\* try_solve returned after running at least one restart
Returned == pc = "done" /\ work.path \in {"stopped", "exhausted"}

MinScore(results) ==
    CHOOSE m \in {results[k].score : k \in 1..Len(results)} :
        \A k \in 1..Len(results) : m <= results[k].score

----------------------------------------------------------------------------
(* The claims *)

\* C1: after a successful load, whatever sequence of set, fill_line, fill_board,
\* reset, copy and solver fills and steps is run, every tile that is non-zero in
\* the initial state holds its initial value, in the caller's Board, in the
\* solver's working Board, in the retained best Board and in every copy.
C1_InitialTilesKept ==
    /\ Kept(b)
    /\ Kept(board_copy)
    /\ Kept(best)
    /\ (solver # None => Kept(solver.board))

\* a fill_board that would overwrite an initial tile was refused on a Board
\* that already holds values of its own
C1_Witness ==
    /\ pc = "board"
    /\ last.op = "fill_board"
    /\ ret = False
    /\ b.board_init # None
    /\ last.vals.n = b.size
    /\ b.board # b.board_init

\* C2: when try_solve returns after R >= 1 restarts, the returned Result scores
\* no more than any recorded Result, and its iteration count is the smallest
\* among the recorded Results that have the minimal score.
C2_BestOfRestarts ==
    Returned =>
        LET rs == solver.results
            tied == {k \in 1..Len(rs) : rs[k].score = MinScore(rs)}
        IN /\ Len(rs) >= 1
           /\ \A k \in 1..Len(rs) : ret.score <= rs[k].score
           /\ \A k \in tied : ret.iterations <= rs[k].iterations
           /\ \E k \in tied : ret.iterations = rs[k].iterations

\* two restarts reached the same score and the later one needed fewer iterations
C2_Witness ==
    /\ Returned
    /\ Len(solver.results) = 2
    /\ solver.results[1].score = solver.results[2].score
    /\ solver.results[2].iterations < solver.results[1].iterations
    /\ ret = solver.results[2]

\* C3: whenever try_solve returns, the objective of the solver evaluated on the
\* Board it returns equals the score of the Result it returns.
C3_ScoreIsOfReturnedBoard ==
    pc = "done" => _eval(solver, solver.board) = ret.score

\* C4: whenever try_solve of HillClimbing or CustomBetaHC returns score 0, the
\* Board it returns has no blank and every row, column and block of it is a
\* permutation of 1..size.
C4_ZeroScoreIsSolved ==
    (pc = "done" /\ solver.kind \in {"HillClimbing", "CustomBetaHC"} /\ ret.score = 0) =>
        /\ \A y \in Idx(solver.board.size), x \in Idx(solver.board.size) :
              solver.board.board[y][x] # 0
        /\ BadAreas(solver.board) = {}

\* C5: on a puzzle without a row of two or more blanks the solver never fills,
\* steps or evaluates, and try_solve returns Result(0, 0).
C5_TrivialPuzzle ==
    NoRowWithTwoBlanks(solver.board) =>
        /\ pc \in {"idle", "done"}
        /\ work.fills = 0 /\ work.steps = 0 /\ work.evals = 0
        /\ (pc = "done" => ret = Result(0, 0))

\* try_solve returned on a puzzle that still has a blank
C5_Witness ==
    /\ pc = "done"
    /\ NoRowWithTwoBlanks(solver.board)
    /\ \E y \in Idx(solver.board.size), x \in Idx(solver.board.size) :
          solver.board.board_init[y][x] = 0
    /\ solver.kind = "CustomBetaHC"

\* C6: with stop_if_found set, a run in which some restart ends with score 0
\* returns the Result of that restart, which is the last one recorded and the
\* only one with score 0, after exactly one fill per recorded Result, and the
\* solver holds the grid that climb left; with stop_if_found unset a run records
\* max_restarts Results after max_restarts fills.
C6_StopIfFound ==
    Returned =>
        LET rs == solver.results IN
        IF solver.stop_if_found
        THEN (\E k \in 1..Len(rs) : rs[k].score = 0) =>
                /\ rs[Len(rs)].score = 0
                /\ \A k \in 1..(Len(rs) - 1) : rs[k].score # 0
                /\ ret = rs[Len(rs)]
                /\ work.fills = Len(rs)
                /\ work.path = "stopped"
                /\ solver.board = climb.final
        ELSE /\ Len(rs) = solver.max_restarts
             /\ work.fills = solver.max_restarts

\* the first of two restarts reached score 0 and the second was not run
C6_Witness ==
    /\ Returned
    /\ solver.stop_if_found
    /\ solver.max_restarts = 2
    /\ Len(solver.results) = 1
    /\ ret.score = 0
    /\ ret.iterations >= 1

\* C7: check() counts the rows, columns and blocks that are not a permutation of
\* 1..size, each once: between 0 and 3*size, (0, 0.0) when there is none, and at
\* least 1 when a row is wholly blank.
C7_CheckCountsBadAreas ==
    ret.mistakes # -1 =>
        /\ ret.mistakes = Cardinality(BadAreas(b))
        /\ 0 <= ret.mistakes /\ ret.mistakes <= 3 * b.size
        /\ ret.ratio = [num |-> ret.mistakes, den |-> 3 * b.size]
        /\ (BadAreas(b) = {} => ret.mistakes = 0 /\ ret.ratio.num = 0)
        /\ ((\E y \in Idx(b.size) : \A x \in Idx(b.size) : b.board[y][x] = 0)
               => ret.mistakes >= 1)

\* one out-of-range number in a solved 9 x 9 grid: its row, column and block
C7_Witness ==
    /\ pc = "eval"
    /\ b.size = 9
    /\ b.board[0][0] = 10
    /\ ret.mistakes = 3

\* C8: the deviation objective is the sum over the 3*size areas of
\* |size*(size+1)/2 - sum(area)|, and is 0 exactly when every area has that sum.
C8_DeviationFromTargetSum ==
    ret.objective # -1 =>
        /\ ret.objective = DeviationOver(b, AreaCells(b.size))
        /\ (ret.objective = 0 <=>
               \A a \in AreaCells(b.size) : CellSum(b, a) = TargetSum(b.size))

\* C9: a grid with mistake count 0 has deviation 0.
C9_SolvedHasNoDeviation ==
    (ret.mistakes = 0 /\ ret.objective # -1) => ret.objective = 0

\* C10: on a Board that has its initial state, set(pos, val) returns False and
\* changes nothing when pos is out of bounds or an initial tile; otherwise it
\* returns True, the tile at pos holds val, and every other tile, the initial
\* state and the unfilled index are unchanged.
C10_SetContract ==
    [][(last'.op = "set" /\ pc = "board" /\ b.board_init # None) =>
          LET pos == last'.pos
              inside == pos.x \in Idx(b.size) /\ pos.y \in Idx(b.size)
          IN IF ~inside \/ b.board_init[pos.y][pos.x] # 0
             THEN ret' = False /\ b' = b
             ELSE /\ ret' = True
                  /\ b'.board[pos.y][pos.x] = last'.val
                  /\ \A y \in Idx(b.size), x \in Idx(b.size) :
                        (y # pos.y \/ x # pos.x) => b'.board[y][x] = b.board[y][x]
                  /\ b'.board_init = b.board_init
                  /\ b'.unfilled = b.unfilled
                  /\ b'.size = b.size
      ]_vars

\* set was refused on an initial tile of a Board that holds values of its own
C10_Witness ==
    /\ pc = "board"
    /\ last.op = "set"
    /\ ret = False
    /\ b.board_init # None
    /\ last.pos = [x |-> 2, y |-> 0]
    /\ b.board_init[0][2] # 0
    /\ b.board # b.board_init

\* C11: on a Board that has its initial state, fill_line(line_num, values) and
\* fill_board(values) return False and change nothing when the length, the shape
\* or the line number is wrong or when an initial tile in scope would get
\* another value; otherwise they return True and the line (the whole grid) holds
\* the values.
C11_BulkFillAllOrNothing ==
    [][(pc = "board" /\ b.board_init # None /\ last'.op \in {"fill_line", "fill_board"}) =>
          IF last'.op = "fill_line"
          THEN LET line_num == last'.line_num
                   vals == last'.vals
                   refused ==
                       \/ Len(vals) # b.size
                       \/ line_num \notin Idx(b.size)
                       \/ \E x \in Idx(b.size) :
                             /\ b.board_init[line_num][x] # 0
                             /\ b.board_init[line_num][x] # vals[x + 1]
               IN IF refused THEN ret' = False /\ b' = b
                  ELSE /\ ret' = True
                       /\ \A x \in Idx(b.size) : b'.board[line_num][x] = vals[x + 1]
                       /\ \A y \in Idx(b.size) \ {line_num} : b'.board[y] = b.board[y]
                       /\ b'.board_init = b.board_init
          ELSE LET vals == last'.vals
                   refused ==
                       \/ vals.n # b.size
                       \/ \E y \in Idx(b.size), x \in Idx(b.size) :
                             /\ b.board_init[y][x] # 0
                             /\ b.board_init[y][x] # vals.g[y][x]
               IN IF refused THEN ret' = False /\ b' = b
                  ELSE /\ ret' = True
                       /\ b'.board = vals.g
                       /\ b'.board_init = b.board_init
      ]_vars

\* the input is size rows of size decimal numerals each
WellFormed(file, n) ==
    /\ Len(file) = n
    /\ \A k \in 1..Len(file) :
          /\ Len(file[k]) = n
          /\ \A j \in 1..Len(file[k]) : file[k][j] \in {Numerals[d] : d \in 1..Len(Numerals)}

\* C12: set_init_state signals malformed input by returning False and never by
\* an exception: it returns False when the input has fewer or more than size
\* rows or a row that does not parse into exactly size integers, and True for
\* every well-formed size x size input.
C12_LoadReturnsBoolean ==
    (pc = "load" /\ last.op = "load") =>
        /\ ret \in {True, False}
        /\ (ret = True <=> WellFormed(last.file, b.size))

\* C13: a set_init_state that does not succeed on a Board that has an initial
\* state leaves the Board as it was: the working values, the initial state and
\* the unfilled index are unchanged.
C13_FailedLoadKeepsBoard ==
    [][(pc = "load" /\ b.board_init # None /\ last'.op = "load" /\ ret' # True) =>
          /\ b'.board = b.board
          /\ b'.board_init = b.board_init
          /\ b'.unfilled = b.unfilled
      ]_vars

\* the columns that are blank in row y of the initial state
BlankColumns(B, y) == {x \in Idx(B.size) : B.board_init[y][x] = 0}

\* the unfilled index is the one of the initial state: a key for exactly the
\* rows with two or more blanks, each with its blank columns in ascending order
UnfilledOfInitial(B) ==
    /\ DOMAIN B.unfilled = {y \in Idx(B.size) : Cardinality(BlankColumns(B, y)) >= 2}
    /\ \A y \in DOMAIN B.unfilled :
          /\ Len(B.unfilled[y]) = Cardinality(BlankColumns(B, y))
          /\ {B.unfilled[y][k] : k \in 1..Len(B.unfilled[y])} = BlankColumns(B, y)
          /\ \A k \in 1..(Len(B.unfilled[y]) - 1) : B.unfilled[y][k] < B.unfilled[y][k + 1]

\* C14: after every successful set_init_state, a second one on the same Board
\* included, unfilled_by_row has a key for exactly the rows of the initial state
\* with two or more blanks and maps each to the ascending list of its blank
\* columns.
C14_UnfilledAfterLoad ==
    (pc = "load" /\ last.op = "load" /\ ret = True) => UnfilledOfInitial(b)

\* the positions is_initial is asked about: every tile and a ring around the grid
ProbePositions(n) == {[x |-> x, y |-> y] : x \in (-1)..n, y \in (-1)..n}

\* the answers of is_initial on B, for every probed position
InitialAnswers(B) == {pos \in ProbePositions(B.size) : is_initial(B, pos)}

\* C15: after a successful set_init_state, is_initial(p) is true exactly for the
\* in-bounds positions whose loaded value is non-zero, and neither the answer
\* nor the initial state changes under set, fill_line, fill_board, reset, copy,
\* the solvers' fills and steps, or try_solve: the caller's Board, every copy,
\* the solver's Board and the retained best Board keep one initial state.
C15_InitialStateFrozen ==
    [][/\ (pc' = "board" /\ last'.op = "load" /\ ret' = True) =>
             InitialAnswers(b') =
                 {pos \in ProbePositions(b'.size) :
                     /\ pos.x \in Idx(b'.size) /\ pos.y \in Idx(b'.size)
                     /\ convert_safe(last'.file[pos.y + 1][pos.x + 1]) # <<0>>}
       /\ (pc = "board" /\ b.board_init # None) =>
             /\ b'.board_init = b.board_init
             /\ InitialAnswers(b') = InitialAnswers(b)
             /\ (board_copy' # None =>
                    /\ board_copy'.board_init = b.board_init
                    /\ InitialAnswers(board_copy') = InitialAnswers(b))
       /\ (pc \notin {"board", "load", "eval"}) =>
             /\ solver'.board.board_init = solver.board.board_init
             /\ InitialAnswers(solver'.board) = InitialAnswers(solver.board)
             /\ (board_copy' # None => board_copy'.board_init = solver.board.board_init)
             /\ (best' # None => best'.board_init = solver.board.board_init)
      ]_vars

\* try_solve returned a filled grid after its restarts, on a second call
C15_Witness ==
    /\ pc = "done"
    /\ calls = 2
    /\ work.path = "exhausted"
    /\ solver.board.board # solver.board.board_init
    /\ InitialAnswers(solver.board) # {}

\* C16: an invalid configuration is rejected by the constructor: Board(size)
\* fails for a size that is not a perfect square, and no PaperBetaHC or
\* CustomBetaHC object with n or beta outside [0, 1] exists for try_solve to be
\* called on.
C16_RejectedAtConstruction ==
    /\ \A sz \in 1..16 : (~\E k \in 1..sz : k * k = sz) => Board(sz) = "AssertionError"
    /\ (calls >= 1 /\ solver.kind \in {"PaperBetaHC", "CustomBetaHC"}) =>
          /\ 0 <= solver.n_prob /\ solver.n_prob <= Denom
          /\ 0 <= solver.beta_prob /\ solver.beta_prob <= Denom

\* what a run of try_solve depends on besides its random draws: the class and
\* the configuration of the solver, the initial state of its Board and the
\* unfilled index
RunInputs(S) ==
    [kind |-> S.kind, max_restarts |-> S.max_restarts, max_iter |-> S.max_iter,
     stop_if_found |-> S.stop_if_found, n_prob |-> S.n_prob, beta_prob |-> S.beta_prob,
     board_size |-> S.board_size, size |-> S.board.size, size_sq |-> S.board.size_sq,
     board_init |-> S.board.board_init, unfilled |-> S.board.unfilled]

C18_ResultsOfExecutedRestarts ==
    pc = "done" =>
        /\ Len(solver.results) = restart
        /\ Len(solver.results) = work.fills
        /\ Len(solver.results) <= solver.max_restarts
        /\ (~solver.stop_if_found => Len(solver.results) = solver.max_restarts)

\* C18 as the code has it: a call that runs the restart loop empties the list,
\* then appends the Result of each restart when its climb returns, in order, and
\* nothing else touches it, so at the return the list has one entry per executed
\* restart (max_restarts of them when stop_if_found is unset); a call on a
\* puzzle without a row of two or more blanks executes no restart and leaves
\* max_restarts copies of Result(0, 0).
C18_ResultsOfTheCall ==
    [][(pc \notin {"board", "load", "eval"}) =>
          /\ (last'.op = "try_solve" /\ pc' = "fill") => solver'.results = << >>
          /\ (last'.op = "record") =>
                solver'.results = Append(solver.results, Result(climb.score_min, climb.i))
          /\ (last'.op \in {"fill", "step", "finish"}) => solver'.results = solver.results
          /\ (pc' = "done") =>
                IF work'.path = "trivial"
                THEN /\ restart' = 0 /\ work'.fills = 0
                     /\ solver'.results = [k \in 1..solver.max_restarts |-> Result(0, 0)]
                ELSE /\ Len(solver'.results) = restart'
                     /\ Len(solver'.results) = work'.fills
                     /\ Len(solver'.results) <= solver.max_restarts
                     /\ (~solver.stop_if_found =>
                            Len(solver'.results) = solver.max_restarts)
      ]_vars

\* a second call that stopped after its first restart, following a call that
\* ran both restarts
C18_Witness ==
    /\ pc = "done"
    /\ calls = 2
    /\ work.path = "stopped"
    /\ solver.max_restarts = 2
    /\ solver.results = <<ret>>

\* C19: with n = 0 the n-operator of PaperBetaHC and of CustomBetaHC leaves the
\* grid it is applied to as it was, whatever the random draws are.
C19_NZeroIsNoOp ==
    [][(pc = "board" /\ last'.op = "n_operator" /\ last'.n = 0) =>
          board_copy' = board_copy
      ]_vars

C21_AcceptIffNotWorse ==
    [][(pc = "climb" /\ last'.op = "step" /\ pc' # "raised") =>
          /\ IF _eval(solver, board_copy') <= climb.score_min
             THEN /\ solver'.board = board_copy'
                  /\ climb'.score_min = _eval(solver, board_copy')
             ELSE /\ solver'.board = solver.board
                  /\ climb'.score_min = climb.score_min
          /\ climb'.score_min <= climb.score_min
          /\ _eval(solver, solver.board) = climb.score_min
          /\ _eval(solver', solver'.board) = climb'.score_min
          /\ climb'.score_min <= climb.start
          /\ climb'.start = climb.start
      ]_vars

\* a candidate was turned down in a climb that had improved on its starting fill
\* before
C21_Witness ==
    /\ pc = "record"
    /\ last.op = "step"
    /\ board_copy # solver.board
    /\ _eval(solver, board_copy) > climb.score_min
    /\ climb.score_min < climb.start

\* C22: a climb reports (score, iterations).  When the score is 0, iterations is
\* the number of steps taken when the current grid first scored 0, and no step
\* is taken once the current grid scores 0, a grid that scores 0 from its fill
\* included; when the score is above 0, iterations is max_iter.
C22_ClimbReport ==
    [][(pc = "climb" /\ last'.op = "step" /\ pc' # "raised") =>
          /\ climb.score_min # 0
          /\ (pc' = "record") =>
                IF climb'.score_min = 0
                THEN /\ climb'.i = climb.i + 1
                     /\ (work'.fills = 1 => climb'.i = work'.steps)
                ELSE climb'.i = solver.max_iter
          /\ (pc' = "climb") => climb'.score_min > 0
      ]_vars

\* no row of the grid holds a non-zero value twice
NoRowDuplicates(g, n) ==
    \A y \in Idx(n) : \A x1, x2 \in Idx(n) :
        (x1 # x2 /\ g[y][x1] # 0) => g[y][x1] # g[y][x2]

\* every row of the Board holds each number of 1..size
RowsArePermutations(B) == \A cells \in RowCells(B.size) : IsPermutation(B, cells)

\* C23: for an initial grid without a duplicate non-zero value in a row, in
\* HillClimbing and CustomBetaHC every row of the current grid and of every
\* candidate grid is a permutation of 1..size from the end of the unique fill to
\* the end of the climb, so only columns and blocks are counted as mistakes and
\* every score is at most 2 * size.
C23_RowsStayPermutations ==
    (/\ pc \in {"climb", "record"}
     /\ solver.kind \in {"HillClimbing", "CustomBetaHC"}
     /\ NoRowDuplicates(solver.board.board_init, solver.board.size)) =>
        /\ RowsArePermutations(solver.board)
        /\ BadAreas(solver.board) \cap RowCells(solver.board.size) = {}
        /\ _eval(solver, solver.board) <= 2 * solver.board.size
        /\ climb.score_min <= 2 * solver.board.size
        /\ climb.start <= 2 * solver.board.size
        /\ (board_copy # None) =>
              /\ RowsArePermutations(board_copy)
              /\ BadAreas(board_copy) \cap RowCells(board_copy.size) = {}
              /\ _eval(solver, board_copy) <= 2 * board_copy.size

\* a CustomBetaHC climb whose candidate differs from the current grid in both
\* rows that have blanks
C23_Witness ==
    /\ pc = "climb"
    /\ solver.kind = "CustomBetaHC"
    /\ board_copy # None
    /\ Cardinality({y \in Idx(board_copy.size) : board_copy.board[y] # solver.board.board[y]}) = 2
    /\ RowsArePermutations(board_copy)

\* C24: in PaperBetaHC every cell of the current grid and of every candidate
\* grid holds a number of 1..size after the random fill and after every
\* application of the n-operator and of the beta-operator.  The n-operator moves
\* a cell by at most 1 and never a cell of the initial state: a cell at size
\* stays when the draw says +1 and a cell at 1 stays when the draw says -1.
C24_PaperValuesInRange ==
    [][/\ (pc' \in {"climb", "record"} /\ solver'.kind = "PaperBetaHC") =>
             /\ IsFilled(solver'.board)
             /\ (board_copy' # None => IsFilled(board_copy'))
       /\ (pc = "board" /\ last'.op = "fill" /\ last'.kind = "PaperBetaHC") =>
             IsFilled(b')
       /\ (pc = "board" /\ last'.op \in {"step", "n_operator"}
              /\ last'.kind = "PaperBetaHC") =>
             IsFilled(board_copy')
       /\ (pc = "board" /\ last'.op = "n_operator" /\ last'.kind = "PaperBetaHC") =>
             \A y \in Idx(board_copy.size), x \in Idx(board_copy.size) :
                LET old == board_copy.board[y][x]
                    new == board_copy'.board[y][x]
                IN /\ Abs(new - old) <= 1
                   /\ (board_copy.board_init[y][x] # 0 => new = old)
                   /\ (old = board_copy.size => new \in {old - 1, old})
                   /\ (old = 1 => new \in {1, 2})
                   /\ \A r \in Draws :
                         _neighbouring_val(board_copy.size, old, r) =
                            IF 2 * r <= Denom
                            THEN (IF old = board_copy.size THEN old ELSE old + 1)
                            ELSE (IF old = 1 THEN old ELSE old - 1)
      ]_vars

\* the n-operator with n = 1 was applied to a copy of a randomly filled grid: a
\* cell at size stayed and another cell moved by one
C24_Witness ==
    /\ pc = "board"
    /\ last.op = "n_operator"
    /\ last.kind = "PaperBetaHC"
    /\ last.n = Denom
    /\ IsFilled(b)
    /\ \E y \in Idx(b.size), x1, x2 \in Idx(b.size) :
          /\ b.board_init[y][x1] = 0 /\ b.board_init[y][x2] = 0
          /\ b.board[y][x1] = b.size /\ board_copy.board[y][x1] = b.size
          /\ Abs(board_copy.board[y][x2] - b.board[y][x2]) = 1

\* the cells that are blank in the initial state, as <<y, x>> pairs
ModifiableCells(B) ==
    {c \in Idx(B.size) \X Idx(B.size) : B.board_init[c[1]][c[2]] = 0}

\* the cells unfilled_positions lists, as <<y, x>> pairs
ListedCells(B) ==
    {<<unfilled_positions(B)[k].y, unfilled_positions(B)[k].x>> :
        k \in 1..Len(unfilled_positions(B))}

\* C25: the cells the per-cell operators of PaperBetaHC go through are exactly
\* the modifiable cells: unfilled_positions() lists every position whose initial
\* value is 0 and no other position.
C25_UnfilledPositionsAreTheBlanks ==
    (pc = "load" /\ b.board_init # None) => ListedCells(b) = ModifiableCells(b)

\* C26: when the fill of a restart begins, the working grid is the initial
\* state, in the first restart of every try_solve call (a call on a solver whose
\* grid an earlier call replaced by its best Board included) and in every later
\* restart: nothing an earlier restart or call wrote is left.
C26_FillStartsFromInitial ==
    (pc = "fill") =>
        /\ solver.board.board = solver.board.board_init
        /\ \A y \in Idx(solver.board.size), x \in Idx(solver.board.size) :
              solver.board.board[y][x] = 0 <=> <<y, x>> \in ModifiableCells(solver.board)
        /\ board_copy = None
        /\ restart < solver.max_restarts
        /\ Len(solver.results) = restart

\* the second restart of a second call begins, the first restart having left a
\* best Board that is not the initial state
C26_Witness ==
    /\ pc = "fill"
    /\ calls = 2
    /\ restart = 1
    /\ best # None
    /\ best.board # solver.board.board
    /\ solver.board.board = solver.board.board_init

\* no two Board objects among the references refer to one array
NoSharedArrays(h, refs) ==
    \A o1, o2 \in refs \ {NoRef} :
        o1 # o2 =>
            {h.obj[o1].board, h.obj[o1].board_init}
                \cap {h.obj[o2].board, h.obj[o2].board_init} = {}

C28_StepSwapsTwoBlanks ==
    [][(pc = "climb" /\ last'.op = "step" /\ pc' # "raised"
           /\ solver.kind = "HillClimbing") =>
          LET old == solver.board
              new == board_copy'
          IN /\ new.board_init = old.board_init
             /\ new.unfilled = old.unfilled
             /\ new.size = old.size /\ new.size_sq = old.size_sq
             /\ \E y \in Idx(old.size) : \E x1, x2 \in Idx(old.size) :
                   /\ x1 # x2
                   /\ Cardinality(BlankColumns(old, y)) >= 2
                   /\ old.board_init[y][x1] = 0 /\ old.board_init[y][x2] = 0
                   /\ new.board[y][x1] = old.board[y][x2]
                   /\ new.board[y][x2] = old.board[y][x1]
                   /\ new.board[y][x1] # old.board[y][x1]
                   /\ new.board[y][x2] # old.board[y][x2]
                   /\ \A yy \in Idx(old.size), xx \in Idx(old.size) :
                         (yy # y \/ xx \notin {x1, x2}) =>
                             new.board[yy][xx] = old.board[yy][xx]
      ]_vars

\* a HillClimbing candidate that was turned down: it differs from the current
\* grid at two cells of row 2, both blank in the initial state
C28_Witness ==
    /\ pc \in {"climb", "record"}
    /\ last.op = "step"
    /\ solver.kind = "HillClimbing"
    /\ board_copy.board[0] = solver.board.board[0]
    /\ Cardinality({x \in Idx(4) : board_copy.board[2][x] # solver.board.board[2][x]}) = 2
    /\ \A x \in Idx(4) :
          board_copy.board[2][x] # solver.board.board[2][x] => solver.board.board_init[2][x] = 0

\* C29: try_solve always terminates.  Whatever the initial grid, the class of
\* the solver and its configuration, a call runs at most max_restarts restarts
\* and at most max_iter steps in each climb, and then returns, also when every
\* step is an accepted move to an equal score.
C29_TrySolveReturns ==
    /\ [](pc \in {"fill", "climb", "record", "finish", "done"} =>
             /\ restart <= solver.max_restarts
             /\ work.fills <= solver.max_restarts
             /\ work.steps <= work.fills * solver.max_iter
             /\ (pc \in {"climb", "record"} => climb.i <= solver.max_iter))
    /\ (pc \in {"fill", "climb", "record", "finish"}) ~> (pc = "done")

\* the flat sequence of the cells of the sub-square at block-row br and
\* block-column bc of the block grid, read row by row
BlockAt(B, br, bc) ==
    [j \in 1..B.size |->
        B.board[br * B.size_sq + ((j - 1) \div B.size_sq)]
               [bc * B.size_sq + ((j - 1) % B.size_sq)]]

\* C30: blocks() yields exactly size blocks, each the flat sequence of the
\* size cells of one contiguous sqrt(size) x sqrt(size) sub-square, together
\* covering every cell once, in row-major order over the block grid: the k-th
\* block yielded is the one at block-row k div sqrt(size) and block-column
\* k mod sqrt(size).
C30_BlocksRowMajor ==
    pc = "eval" =>
        /\ Len(squares(b)) = b.size
        /\ \A k \in Idx(b.size) :
              squares(b)[k + 1] = BlockAt(b, k \div b.size_sq, k % b.size_sq)

====
